---- MODULE Spec2Model ----
(***************************************************************************)
(* xt_imager.py: flashing a disk image to eMMC through the u-boot console  *)
(* and TFTP.  The model follows main() and do_flash_image() statement by   *)
(* statement; the serial line is a pair of queues (tx: host to board,      *)
(* rx: board to host) and the board is a u-boot that executes one          *)
(* carriage-return-terminated command at a time.                           *)
(* Text on the line is a sequence of one-character strings.                *)
(***************************************************************************)
EXTENDS Integers, Sequences, FiniteSets, TLC

\* ---------------------------------------------------------------- bounds
\* The image holds up to MaxFullChunks full chunks followed by a tail.
MaxFullChunks == 2
\* Length of the byte streams fed to conn_wait_for_any in SpecWait.
MaxStream == 4

\* ------------------------------------------------------ program constants
base_addr == 0
mmc_device == 1
mmc_part == 0
mmc_block_size == 512
chunk_size_in_bytes == 20 * 1024 * 1024

uboot_prompt == <<"=", ">">>
autoboot_marker == <<"H", "i", "t", " ", "a", "n", "y", " ", "k", "e", "y", " ", "t", "o", " ", "s", "t", "o", "p", " ", "a", "u", "t", "o", "b", "o", "o", "t", ":">>
BytesTransferredPrefix == <<"B", "y", "t", "e", "s", " ", "t", "r", "a", "n", "s", "f", "e", "r", "r", "e", "d", " ", "=", " ">>
UncompressedPrefix == <<"U", "n", "c", "o", "m", "p", "r", "e", "s", "s", "e", "d", " ", "s", "i", "z", "e", ":", " ">>
BlocksWrittenSuffix == <<" ", "b", "l", "o", "c", "k", "s", " ", "w", "r", "i", "t", "t", "e", "n", ":", " ", "O", "K">>

\* ------------------------------------------------------- number formatting
HexDigits == <<"0", "1", "2", "3", "4", "5", "6", "7", "8", "9", "A", "B", "C", "D", "E", "F">>

\* f"{n}": decimal digits, most significant first, "0" for zero.
RECURSIVE ToDecimal(_)
ToDecimal(n) ==
    IF n < 10 THEN <<HexDigits[n + 1]>>
    ELSE Append(ToDecimal(n \div 10), HexDigits[(n % 10) + 1])

\* f"{n:X}": upper-case hexadecimal digits, "0" for zero.
RECURSIVE ToHex(_)
ToHex(n) ==
    IF n < 16 THEN <<HexDigits[n + 1]>>
    ELSE Append(ToHex(n \div 16), HexDigits[(n % 16) + 1])

DigitValue(c) == (CHOOSE i \in 1..16 : HexDigits[i] = c) - 1

\* The board's reading of a hexadecimal command argument.
RECURSIVE FromHex(_)
FromHex(s) ==
    IF s = <<>> THEN 0
    ELSE 16 * FromHex(SubSeq(s, 1, Len(s) - 1)) + DigitValue(s[Len(s)])

\* ------------------------------------------------------------ the matcher
\* x in rcv_str: x occurs as a contiguous substring.
Contains(x, s) ==
    \E i \in 0..(Len(s) - Len(x)) : SubSeq(s, i + 1, i + Len(x)) = x

AnyMatch(exp, s) == \E x \in exp : Contains(x, s)

\* Mutant: the loop runs until every expected string is in rcv_str.
StillWaitingForAll(exp, s) == \E x \in exp : ~Contains(x, s)

\* The loop condition of conn_wait_for_any: no expected string is in rcv_str.
StillWaiting(exp, s) == \A x \in exp : ~Contains(x, s)

\* ----------------------------------------------------------- chunk sizes
\* Mutant: the partial block at the end of a chunk is not counted.
BlocksOfFloor(len) == len \div mmc_block_size

\* len(data) // mmc_block_size, plus one for a partial block.
BlocksOf(len) ==
    IF len % mmc_block_size # 0
    THEN len \div mmc_block_size + 1
    ELSE len \div mmc_block_size

\* f_img.read(chunk_size_in_bytes): up to the limit, short only at the end.
ReadLen(remaining) ==
    IF remaining < chunk_size_in_bytes THEN remaining ELSE chunk_size_in_bytes

\* len(lzma.compress(data, FORMAT_ALONE)): depends on the bytes; the header
\* alone is 13 bytes.  Two outcomes stand for the library's possible results.
PackedLens(len) == {13 + len \div 4, 13 + len + len \div 64}

\* Tails around one block, and the 5 MiB tail of a 45 MiB image.
TailSizes == {0, 1, 512, 513, 5 * 1024 * 1024}
ImageLens == {k * chunk_size_in_bytes + t : k \in 0..MaxFullChunks, t \in TailSizes}


\* ------------------------------------------------------------------ state
VARIABLES
    args,                \* parsed command line: tftp, serverip, ipaddr, xz
    image_len,           \* number of (uncompressed) bytes the image holds
    pc,                  \* the statement the main thread executes next
    exc,                 \* the exception being propagated, "none" if none
    srv,                 \* TFTP server thread: "none", "listening", "stopped"
    conn,                \* serial channel: "unopened", "open", "closed"
    conn_closes,         \* number of conn.close() calls
    f_img,               \* image file object: "unopened", "open", "closed"
    f_pos,               \* read position of f_img
    image_size,          \* os.path.getsize, 0 for an .xz image
    bytes_sent,
    block_start,
    data_len,            \* len(data) of the chunk in hand
    packed_len,          \* len(data_packed) of the chunk in hand
    chunk_size_in_blocks,
    chunk_file,          \* chunk.bin in tftp_root: "absent", "writing", "closed"
    chunk_content,       \* <<compressed length, uncompressed length>> on disk
    tx,                  \* commands written to the serial port, not yet taken
    rx,                  \* bytes the board has sent, not yet read
    rcv_str,             \* buffer of the running conn_wait_for_any call
    expect,              \* its expect argument
    dev,                 \* board: "countdown", "prompt", "busy", "booted"
    dev_cmd,             \* the command the board is executing
    dev_ram,             \* what the board holds at the staging address
    exit_status,         \* -1 while the process runs, else its exit status
    hs_cr,               \* history: carriage returns sent by the handshake
    hs_first,            \* history: the marker that ended the first wait
    confirmed,           \* history: waits of the chunk in hand that returned
    flashed_ok,          \* history: the success message was logged
    fail_pc,             \* history: the statement that raised, "none" if none
    trace,               \* history: commands sent and waits returned, in order
    dev_report           \* history: numbers the board printed for this chunk

vars == <<args, image_len, pc, exc, srv, conn, conn_closes, f_img, f_pos,
          image_size, bytes_sent, block_start, data_len, packed_len,
          chunk_size_in_blocks, chunk_file, chunk_content, tx, rx, rcv_str,
          expect, dev, dev_cmd, dev_ram, exit_status, hs_cr, hs_first,
          confirmed, flashed_ok, fail_pc, trace, dev_report>>

progVars == <<pc, exc, conn, conn_closes, f_img, f_pos, image_size, bytes_sent,
              block_start, data_len, packed_len, chunk_size_in_blocks,
              exit_status, flashed_ok, fail_pc>>
fileVars == <<chunk_file, chunk_content>>
devVars == <<dev, dev_cmd, dev_ram>>
histVars == <<hs_cr, hs_first, confirmed>>
inputVars == <<args, image_len>>

\* No number printed yet for the transfer, the decompression and the write.
NoReport == [tftp |-> -1, lzmadec |-> -1, mmc_write |-> -1]

NoCmd == [op |-> "none", a |-> <<>>, b |-> <<>>]
Cmd(op, a, b) == [op |-> op, a |-> a, b |-> b]

\* -t: absent, the bare flag, an existing directory, anything else.
TftpModes == {"NONE", "AUTO", "DIR", "BAD"}

WaitPcs == {"hs_wait1", "hs_wait2", "w_serverip", "w_ipaddr", "w_mmc_dev",
            "w_transfer", "w_transfer_prompt", "w_uncompressed",
            "w_lzmadec_prompt", "w_written", "w_write_prompt"}

\* The waits inside the try block of do_flash_image.
TryPcs == {"w_transfer", "w_transfer_prompt", "w_uncompressed",
           "w_lzmadec_prompt", "w_written", "w_write_prompt"}

\* The expect argument of each conn_wait_for_any call.
ExpectAt(p, plen, dlen, blocks) ==
    CASE p = "hs_wait1" -> {uboot_prompt, autoboot_marker}
      [] p = "w_transfer" -> {BytesTransferredPrefix \o ToDecimal(plen)}
      [] p = "w_uncompressed" -> {UncompressedPrefix \o ToDecimal(dlen)}
      [] p = "w_written" -> {ToDecimal(blocks) \o BlocksWrittenSuffix}
      [] OTHER -> {uboot_prompt}

\* Mutant: the handshake goes on after its first wait, without the second
\* carriage return.
AfterWaitOneCr(p) ==
    CASE p = "hs_wait1" -> "open_image"
      [] p = "hs_wait2" -> "open_image"
      [] p = "w_serverip" -> "set_ipaddr"
      [] p = "w_ipaddr" -> "mmc_dev"
      [] p = "w_mmc_dev" -> "read_chunk"
      [] p = "w_transfer" -> "w_transfer_prompt"
      [] p = "w_transfer_prompt" -> "send_lzmadec"
      [] p = "w_uncompressed" -> "w_lzmadec_prompt"
      [] p = "w_lzmadec_prompt" -> "send_mmc_write"
      [] p = "w_written" -> "w_write_prompt"
      [] p = "w_write_prompt" -> "advance"
      [] OTHER -> "wait_returned"

\* Mutant: the bookkeeping follows the write confirmation directly, without
\* the wait for the prompt after it.
AfterWaitNoWritePrompt(p) ==
    CASE p = "hs_wait1" -> "hs_send2"
      [] p = "hs_wait2" -> "open_image"
      [] p = "w_serverip" -> "set_ipaddr"
      [] p = "w_ipaddr" -> "mmc_dev"
      [] p = "w_mmc_dev" -> "read_chunk"
      [] p = "w_transfer" -> "w_transfer_prompt"
      [] p = "w_transfer_prompt" -> "send_lzmadec"
      [] p = "w_uncompressed" -> "w_lzmadec_prompt"
      [] p = "w_lzmadec_prompt" -> "send_mmc_write"
      [] p = "w_written" -> "advance"
      [] p = "w_write_prompt" -> "advance"
      [] OTHER -> "wait_returned"

\* Mutant: the block write follows the transfer directly, no decompression
\* command is sent.
AfterWaitNoLzmadec(p) ==
    CASE p = "hs_wait1" -> "hs_send2"
      [] p = "hs_wait2" -> "open_image"
      [] p = "w_serverip" -> "set_ipaddr"
      [] p = "w_ipaddr" -> "mmc_dev"
      [] p = "w_mmc_dev" -> "read_chunk"
      [] p = "w_transfer" -> "w_transfer_prompt"
      [] p = "w_transfer_prompt" -> "send_mmc_write"
      [] p = "w_uncompressed" -> "w_lzmadec_prompt"
      [] p = "w_lzmadec_prompt" -> "send_mmc_write"
      [] p = "w_written" -> "w_write_prompt"
      [] p = "w_write_prompt" -> "advance"
      [] OTHER -> "wait_returned"

\* Mutant: the decompression command goes out right after the transfer
\* marker, without the wait for the prompt.
AfterWaitNoTransferPrompt(p) ==
    CASE p = "hs_wait1" -> "hs_send2"
      [] p = "hs_wait2" -> "open_image"
      [] p = "w_serverip" -> "set_ipaddr"
      [] p = "w_ipaddr" -> "mmc_dev"
      [] p = "w_mmc_dev" -> "read_chunk"
      [] p = "w_transfer" -> "send_lzmadec"
      [] p = "w_transfer_prompt" -> "send_lzmadec"
      [] p = "w_uncompressed" -> "w_lzmadec_prompt"
      [] p = "w_lzmadec_prompt" -> "send_mmc_write"
      [] p = "w_written" -> "w_write_prompt"
      [] p = "w_write_prompt" -> "advance"
      [] OTHER -> "wait_returned"

\* The statement that follows each conn_wait_for_any call.
AfterWait(p) ==
    CASE p = "hs_wait1" -> "hs_send2"
      [] p = "hs_wait2" -> "open_image"
      [] p = "w_serverip" -> "set_ipaddr"
      [] p = "w_ipaddr" -> "mmc_dev"
      [] p = "w_mmc_dev" -> "read_chunk"
      [] p = "w_transfer" -> "w_transfer_prompt"
      [] p = "w_transfer_prompt" -> "send_lzmadec"
      [] p = "w_uncompressed" -> "w_lzmadec_prompt"
      [] p = "w_lzmadec_prompt" -> "send_mmc_write"
      [] p = "w_written" -> "w_write_prompt"
      [] p = "w_write_prompt" -> "advance"
      [] OTHER -> "wait_returned"

\* Mutant: a timeout in a wait of a chunk sends the chunk's transfer command
\* again instead of leaving the loop.
RaiseToRetry(p) == IF p \in TryPcs THEN "send_tftp" ELSE "except"

\* Where an exception raised at p is handled next: the finally clause for a
\* statement of the try block, the handler of __main__ otherwise.
RaiseTo(p) == IF p \in TryPcs THEN "finally" ELSE "except"

\* conn_wait_for_any(conn, expect): enter the call with an empty buffer.
CallWait(p, plen, dlen, blocks) ==
    /\ pc' = p
    /\ rcv_str' = <<>>
    /\ expect' = ExpectAt(p, plen, dlen, blocks)

\* conn_send(conn, data)
conn_send(cmd) ==
    /\ tx' = Append(tx, cmd)
    /\ trace' = Append(trace, cmd)

Init ==
    /\ args \in [tftp : TftpModes, serverip : BOOLEAN, ipaddr : BOOLEAN,
                 xz : BOOLEAN]
    /\ image_len \in ImageLens
    /\ pc = "main"
    /\ exc = "none"
    /\ srv = "none"
    /\ conn = "unopened"
    /\ conn_closes = 0
    /\ f_img = "unopened"
    /\ f_pos = 0
    /\ image_size = 0
    /\ bytes_sent = 0
    /\ block_start = 0
    /\ data_len = 0
    /\ packed_len = 0
    /\ chunk_size_in_blocks = 0
    /\ chunk_file = "absent"
    /\ chunk_content = <<0, 0>>
    /\ tx = <<>>
    /\ rcv_str = <<>>
    /\ expect = {}
    /\ dev \in {"prompt", "countdown"}
    /\ rx \in IF dev = "countdown" THEN {<<>>, autoboot_marker} ELSE {<<>>}
    /\ dev_cmd = NoCmd
    /\ dev_ram = <<0, 0>>
    /\ exit_status = -1
    /\ hs_cr = 0
    /\ hs_first = "none"
    /\ confirmed = {}
    /\ flashed_ok = FALSE
    /\ fail_pc = "none"
    /\ trace = <<>>
    /\ dev_report = NoReport

\* ------------------------------------------------------------------ main()
\* Lines 66-80: choose the TFTP root; in AUTO mode start our own server.
MainTftp ==
    /\ pc = "main"
    /\ \/ /\ args.tftp = "AUTO"
          /\ \E tftpy_ok \in BOOLEAN :
                IF tftpy_ok
                THEN /\ srv' = "listening"
                     /\ pc' = "open_connection"
                     /\ UNCHANGED <<exc, exit_status, fail_pc>>
                ELSE \* PYTFTPServer.__init__: exit(1)
                     /\ pc' = "exited"
                     /\ exit_status' = 1
                     /\ UNCHANGED <<srv, exc, fail_pc>>
       \/ /\ args.tftp = "DIR"
          /\ pc' = "open_connection"
          /\ UNCHANGED <<srv, exc, exit_status, fail_pc>>
       \/ /\ args.tftp = "BAD"
          /\ pc' = "except"
          /\ exc' = "Exception"
          /\ fail_pc' = "main"
          /\ UNCHANGED <<srv, exit_status>>
       \/ /\ args.tftp = "NONE"
          \* os.path.isdir(None) raises TypeError
          /\ pc' = "except"
          /\ exc' = "TypeError"
          /\ fail_pc' = "main"
          /\ UNCHANGED <<srv, exit_status>>
    /\ UNCHANGED <<conn, conn_closes, f_img, f_pos, image_size, bytes_sent,
                   block_start, data_len, packed_len, chunk_size_in_blocks,
                   flashed_ok, tx, rx, rcv_str, expect>>
    /\ UNCHANGED <<fileVars, devVars, histVars, inputVars>>
    /\ UNCHANGED trace
    /\ UNCHANGED dev_report

\* open_connection(args): serial.Serial(...) opens the port or raises.
OpenConnection ==
    /\ pc = "open_connection"
    /\ \E ok \in BOOLEAN :
          IF ok
          THEN /\ conn' = "open"
               /\ pc' = "hs_send1"
               /\ UNCHANGED <<exc, fail_pc>>
          ELSE /\ pc' = "except"
               /\ exc' = "SerialException"
               /\ fail_pc' = "open_connection"
               /\ UNCHANGED conn
    /\ UNCHANGED <<srv, conn_closes, f_img, f_pos, image_size, bytes_sent,
                   block_start, data_len, packed_len, chunk_size_in_blocks,
                   exit_status, flashed_ok, tx, rx, rcv_str, expect>>
    /\ UNCHANGED <<fileVars, devVars, histVars, inputVars>>
    /\ UNCHANGED trace
    /\ UNCHANGED dev_report

\* ------------------------------------------------------- do_flash_image()
\* Lines 118-119: the first carriage return and the wait for either marker.
HsSend1 ==
    /\ pc = "hs_send1"
    /\ conn_send(Cmd("cr", <<>>, <<>>))
    /\ hs_cr' = hs_cr + 1
    /\ CallWait("hs_wait1", packed_len, data_len, chunk_size_in_blocks)
    /\ UNCHANGED <<exc, srv, conn, conn_closes, f_img, f_pos, image_size,
                   bytes_sent, block_start, data_len, packed_len,
                   chunk_size_in_blocks, exit_status, flashed_ok, fail_pc, rx,
                   hs_first, confirmed>>
    /\ UNCHANGED <<fileVars, devVars, inputVars>>
    /\ UNCHANGED dev_report

\* Lines 121-122: the second carriage return and the wait for the prompt.
HsSend2 ==
    /\ pc = "hs_send2"
    /\ conn_send(Cmd("cr", <<>>, <<>>))
    /\ hs_cr' = hs_cr + 1
    /\ CallWait("hs_wait2", packed_len, data_len, chunk_size_in_blocks)
    /\ UNCHANGED <<exc, srv, conn, conn_closes, f_img, f_pos, image_size,
                   bytes_sent, block_start, data_len, packed_len,
                   chunk_size_in_blocks, exit_status, flashed_ok, fail_pc, rx,
                   hs_first, confirmed>>
    /\ UNCHANGED <<fileVars, devVars, inputVars>>
    /\ UNCHANGED dev_report

\* Lines 124-144: size and open the image, reset the bookkeeping.
OpenImage ==
    /\ pc = "open_image"
    /\ \E readable \in BOOLEAN :
          IF readable
          THEN /\ image_size' = IF args.xz THEN 0 ELSE image_len
               /\ f_img' = "open"
               /\ f_pos' = 0
               /\ bytes_sent' = 0
               /\ block_start' = base_addr \div mmc_block_size
               /\ pc' = "set_serverip"
               /\ UNCHANGED <<exc, fail_pc>>
          ELSE /\ pc' = "except"
               /\ exc' = "OSError"
               /\ fail_pc' = "open_image"
               /\ UNCHANGED <<image_size, f_img, f_pos, bytes_sent, block_start>>
    /\ UNCHANGED <<srv, conn, conn_closes, data_len, packed_len,
                   chunk_size_in_blocks, exit_status, flashed_ok, tx, rx,
                   rcv_str, expect>>
    /\ UNCHANGED <<fileVars, devVars, histVars, inputVars>>
    /\ UNCHANGED trace
    /\ UNCHANGED dev_report

\* Mutant: a setup command is sent and the program goes on without waiting
\* for the prompt.
SetupSendNoWait(op, w) ==
    /\ conn_send(Cmd(op, <<>>, <<>>))
    /\ pc' = AfterWait(w)
    /\ UNCHANGED <<rcv_str, expect>>

\* A command of the one-shot setup followed by its prompt wait.
SetupSend(op, w) ==
    /\ conn_send(Cmd(op, <<>>, <<>>))
    /\ CallWait(w, packed_len, data_len, chunk_size_in_blocks)

SetupSkip(next) ==
    /\ pc' = next
    /\ UNCHANGED <<tx, rcv_str, expect, trace>>

\* Lines 146-148
SetServerip ==
    /\ pc = "set_serverip"
    /\ IF args.serverip
       THEN SetupSend("env_set_serverip", "w_serverip")
       ELSE SetupSkip("set_ipaddr")
    /\ UNCHANGED <<exc, srv, conn, conn_closes, f_img, f_pos, image_size,
                   bytes_sent, block_start, data_len, packed_len,
                   chunk_size_in_blocks, exit_status, flashed_ok, fail_pc, rx>>
    /\ UNCHANGED <<fileVars, devVars, histVars, inputVars>>
    /\ UNCHANGED dev_report

\* Lines 150-152
SetIpaddr ==
    /\ pc = "set_ipaddr"
    /\ IF args.ipaddr
       THEN SetupSend("env_set_ipaddr", "w_ipaddr")
       ELSE SetupSkip("mmc_dev")
    /\ UNCHANGED <<exc, srv, conn, conn_closes, f_img, f_pos, image_size,
                   bytes_sent, block_start, data_len, packed_len,
                   chunk_size_in_blocks, exit_status, flashed_ok, fail_pc, rx>>
    /\ UNCHANGED <<fileVars, devVars, histVars, inputVars>>
    /\ UNCHANGED dev_report

\* Lines 155-156
MmcDev ==
    /\ pc = "mmc_dev"
    /\ conn_send(Cmd("mmc_dev", ToDecimal(mmc_device), ToDecimal(mmc_part)))
    /\ CallWait("w_mmc_dev", packed_len, data_len, chunk_size_in_blocks)
    /\ UNCHANGED <<exc, srv, conn, conn_closes, f_img, f_pos, image_size,
                   bytes_sent, block_start, data_len, packed_len,
                   chunk_size_in_blocks, exit_status, flashed_ok, fail_pc, rx>>
    /\ UNCHANGED <<fileVars, devVars, histVars, inputVars>>
    /\ UNCHANGED dev_report

\* Lines 164-170: read the next chunk; leave the loop on an empty read,
\* else open chunk.bin for writing (which truncates it).
ReadChunk ==
    /\ pc = "read_chunk"
    /\ LET len == ReadLen(image_len - f_pos) IN
          IF len = 0
          THEN /\ pc' = "finally"
               /\ data_len' = 0
               /\ UNCHANGED <<f_pos, chunk_file, chunk_content, confirmed,
                              dev_report>>
          ELSE /\ pc' = "write_chunk"
               /\ data_len' = len
               /\ f_pos' = f_pos + len
               /\ chunk_file' = "writing"
               /\ chunk_content' = <<0, 0>>
               /\ confirmed' = {}
               /\ dev_report' = NoReport
    /\ UNCHANGED <<exc, srv, conn, conn_closes, f_img, image_size, bytes_sent,
                   block_start, packed_len, chunk_size_in_blocks, exit_status,
                   flashed_ok, fail_pc, tx, rx, rcv_str, expect, hs_cr,
                   hs_first>>
    /\ UNCHANGED <<devVars, inputVars>>
    /\ UNCHANGED trace

\* Mutant: the transfer command goes out while chunk.bin is still open for
\* writing.
WriteChunkNoClose ==
    /\ pc = "write_chunk"
    /\ \E plen \in PackedLens(data_len) :
          /\ packed_len' = plen
          /\ chunk_content' = <<plen, data_len>>
    /\ chunk_file' = "writing"
    /\ pc' = "send_tftp"
    /\ UNCHANGED <<exc, srv, conn, conn_closes, f_img, f_pos, image_size,
                   bytes_sent, block_start, data_len, chunk_size_in_blocks,
                   exit_status, flashed_ok, fail_pc, tx, rx, rcv_str, expect>>
    /\ UNCHANGED <<devVars, histVars, inputVars>>
    /\ UNCHANGED trace
    /\ UNCHANGED dev_report

\* Lines 171-173: compress the chunk, write it out and close the file.
WriteChunk ==
    /\ pc = "write_chunk"
    /\ \E plen \in PackedLens(data_len) :
          /\ packed_len' = plen
          /\ chunk_content' = <<plen, data_len>>
    /\ chunk_file' = "closed"
    /\ pc' = "send_tftp"
    /\ UNCHANGED <<exc, srv, conn, conn_closes, f_img, f_pos, image_size,
                   bytes_sent, block_start, data_len, chunk_size_in_blocks,
                   exit_status, flashed_ok, fail_pc, tx, rx, rcv_str, expect>>
    /\ UNCHANGED <<devVars, histVars, inputVars>>
    /\ UNCHANGED trace
    /\ UNCHANGED dev_report

\* Lines 174-176
SendTftp ==
    /\ pc = "send_tftp"
    /\ conn_send(Cmd("tftp", <<>>, <<>>))
    /\ CallWait("w_transfer", packed_len, data_len, chunk_size_in_blocks)
    /\ UNCHANGED <<exc, srv, conn, conn_closes, f_img, f_pos, image_size,
                   bytes_sent, block_start, data_len, packed_len,
                   chunk_size_in_blocks, exit_status, flashed_ok, fail_pc, rx>>
    /\ UNCHANGED <<fileVars, devVars, histVars, inputVars>>
    /\ UNCHANGED dev_report

\* Lines 179-181
SendLzmadec ==
    /\ pc = "send_lzmadec"
    /\ conn_send(Cmd("lzmadec", <<>>, <<>>))
    /\ CallWait("w_uncompressed", packed_len, data_len, chunk_size_in_blocks)
    /\ UNCHANGED <<exc, srv, conn, conn_closes, f_img, f_pos, image_size,
                   bytes_sent, block_start, data_len, packed_len,
                   chunk_size_in_blocks, exit_status, flashed_ok, fail_pc, rx>>
    /\ UNCHANGED <<fileVars, devVars, histVars, inputVars>>
    /\ UNCHANGED dev_report

\* Lines 184-190
SendMmcWrite ==
    /\ pc = "send_mmc_write"
    /\ LET blocks == BlocksOf(data_len) IN
          /\ chunk_size_in_blocks' = blocks
          /\ conn_send(Cmd("mmc_write", ToHex(block_start), ToHex(blocks)))
          /\ CallWait("w_written", packed_len, data_len, blocks)
    /\ UNCHANGED <<exc, srv, conn, conn_closes, f_img, f_pos, image_size,
                   bytes_sent, block_start, data_len, packed_len, exit_status,
                   flashed_ok, fail_pc, rx>>
    /\ UNCHANGED <<fileVars, devVars, histVars, inputVars>>
    /\ UNCHANGED dev_report

\* Mutant: the bookkeeping counts the bytes but leaves the block offset
\* where it was.
AdvanceBytesOnly ==
    /\ pc = "advance"
    /\ bytes_sent' = bytes_sent + data_len
    /\ block_start' = block_start
    /\ pc' = "read_chunk"
    /\ UNCHANGED <<exc, srv, conn, conn_closes, f_img, f_pos, image_size,
                   data_len, packed_len, chunk_size_in_blocks, exit_status,
                   flashed_ok, fail_pc, tx, rx, rcv_str, expect>>
    /\ UNCHANGED <<fileVars, devVars, histVars, inputVars>>
    /\ UNCHANGED trace
    /\ UNCHANGED dev_report

\* Lines 193-208: the bookkeeping (the progress line changes no state).
Advance ==
    /\ pc = "advance"
    /\ bytes_sent' = bytes_sent + data_len
    /\ block_start' = block_start + chunk_size_in_blocks
    /\ pc' = "read_chunk"
    /\ UNCHANGED <<exc, srv, conn, conn_closes, f_img, f_pos, image_size,
                   data_len, packed_len, chunk_size_in_blocks, exit_status,
                   flashed_ok, fail_pc, tx, rx, rcv_str, expect>>
    /\ UNCHANGED <<fileVars, devVars, histVars, inputVars>>
    /\ UNCHANGED trace
    /\ UNCHANGED dev_report

\* Mutant: the cleanup leaves chunk.bin in place.
FinallyKeepsFile ==
    /\ pc = "finally"
    /\ pc' = IF exc = "none" THEN "close_all" ELSE "except"
    /\ UNCHANGED <<exc, fail_pc, chunk_file, chunk_content>>
    /\ UNCHANGED <<srv, conn, conn_closes, f_img, f_pos, image_size, bytes_sent,
                   block_start, data_len, packed_len, chunk_size_in_blocks,
                   exit_status, flashed_ok, tx, rx, rcv_str, expect>>
    /\ UNCHANGED <<devVars, histVars, inputVars>>
    /\ UNCHANGED trace
    /\ UNCHANGED dev_report

\* Lines 209-211: os.remove(out_fullname), then go on or re-raise.
Finally ==
    /\ pc = "finally"
    /\ IF chunk_file # "absent"
       THEN /\ chunk_file' = "absent"
            /\ chunk_content' = <<0, 0>>
            /\ pc' = IF exc = "none" THEN "close_all" ELSE "except"
            /\ UNCHANGED <<exc, fail_pc>>
       ELSE /\ exc' = "FileNotFoundError"
            /\ fail_pc' = "finally"
            /\ pc' = "except"
            /\ UNCHANGED <<chunk_file, chunk_content>>
    /\ UNCHANGED <<srv, conn, conn_closes, f_img, f_pos, image_size, bytes_sent,
                   block_start, data_len, packed_len, chunk_size_in_blocks,
                   exit_status, flashed_ok, tx, rx, rcv_str, expect>>
    /\ UNCHANGED <<devVars, histVars, inputVars>>
    /\ UNCHANGED trace
    /\ UNCHANGED dev_report

\* Lines 213-219: close the image and the channel, log the success.
CloseAll ==
    /\ pc = "close_all"
    /\ f_img' = "closed"
    /\ conn' = "closed"
    /\ conn_closes' = conn_closes + 1
    /\ flashed_ok' = TRUE
    /\ pc' = "stop_server"
    /\ UNCHANGED <<exc, srv, f_pos, image_size, bytes_sent, block_start,
                   data_len, packed_len, chunk_size_in_blocks, exit_status,
                   fail_pc, tx, rx, rcv_str, expect>>
    /\ UNCHANGED <<fileVars, devVars, histVars, inputVars>>
    /\ UNCHANGED trace
    /\ UNCHANGED dev_report

\* Lines 84-87: back in main(), stop and join our TFTP server.
StopServer ==
    /\ pc = "stop_server"
    /\ srv' = IF args.tftp = "AUTO" THEN "stopped" ELSE srv
    /\ pc' = "main_returned"
    /\ UNCHANGED <<exc, conn, conn_closes, f_img, f_pos, image_size, bytes_sent,
                   block_start, data_len, packed_len, chunk_size_in_blocks,
                   exit_status, flashed_ok, fail_pc, tx, rx, rcv_str, expect>>
    /\ UNCHANGED <<fileVars, devVars, histVars, inputVars>>
    /\ UNCHANGED trace
    /\ UNCHANGED dev_report

\* Lines 251-253: log the exception and its traceback.
ExceptHandler ==
    /\ pc = "except"
    /\ pc' = "main_returned"
    /\ UNCHANGED <<exc, srv, conn, conn_closes, f_img, f_pos, image_size,
                   bytes_sent, block_start, data_len, packed_len,
                   chunk_size_in_blocks, exit_status, flashed_ok, fail_pc, tx,
                   rx, rcv_str, expect>>
    /\ UNCHANGED <<fileVars, devVars, histVars, inputVars>>
    /\ UNCHANGED trace
    /\ UNCHANGED dev_report

\* The script ran off its end: the interpreter exits with status 0 once no
\* non-daemon thread is left (the TFTP server thread is not a daemon).
ProcessExit ==
    /\ pc = "main_returned"
    /\ srv # "listening"
    /\ exit_status' = 0
    /\ pc' = "exited"
    /\ UNCHANGED <<exc, srv, conn, conn_closes, f_img, f_pos, image_size,
                   bytes_sent, block_start, data_len, packed_len,
                   chunk_size_in_blocks, flashed_ok, fail_pc, tx, rx, rcv_str,
                   expect>>
    /\ UNCHANGED <<fileVars, devVars, histVars, inputVars>>
    /\ UNCHANGED trace
    /\ UNCHANGED dev_report

\* ---------------------------------------------------- conn_wait_for_any()
\* Lines 235-241: the loop condition holds and conn.read(1) yields a byte.
WaitRead ==
    /\ pc \in WaitPcs \cup {"wait"}
    /\ StillWaiting(expect, rcv_str)
    /\ rx # <<>>
    /\ rcv_str' = Append(rcv_str, Head(rx))
    /\ rx' = Tail(rx)
    /\ UNCHANGED <<progVars, srv, tx, expect>>
    /\ UNCHANGED <<fileVars, devVars, histVars, inputVars>>
    /\ UNCHANGED trace
    /\ UNCHANGED dev_report

\* Lines 235-237: conn.read(1) yields nothing within the port's timeout.
WaitTimeout ==
    /\ pc \in WaitPcs \cup {"wait"}
    /\ StillWaiting(expect, rcv_str)
    /\ rx = <<>>
    /\ exc' = "TimeoutError"
    /\ fail_pc' = pc
    /\ pc' = RaiseTo(pc)
    /\ UNCHANGED <<srv, conn, conn_closes, f_img, f_pos, image_size, bytes_sent,
                   block_start, data_len, packed_len, chunk_size_in_blocks,
                   exit_status, flashed_ok, tx, rx, rcv_str, expect>>
    /\ UNCHANGED <<fileVars, devVars, histVars, inputVars>>
    /\ UNCHANGED trace
    /\ UNCHANGED dev_report

\* Line 234: an expected string is in rcv_str; the call returns and the
\* caller goes on (to another wait, or to its next statement).
WaitReturn ==
    /\ pc \in WaitPcs \cup {"wait"}
    /\ ~StillWaiting(expect, rcv_str)
    /\ hs_first' = IF pc = "hs_wait1"
                   THEN (IF Contains(uboot_prompt, rcv_str) THEN "prompt"
                         ELSE "countdown")
                   ELSE hs_first
    /\ confirmed' = IF pc \in TryPcs THEN confirmed \cup {pc} ELSE confirmed
    /\ trace' = Append(trace, Cmd("returned", <<pc>>, <<>>))
    /\ IF AfterWait(pc) \in WaitPcs
       THEN CallWait(AfterWait(pc), packed_len, data_len, chunk_size_in_blocks)
       ELSE /\ pc' = AfterWait(pc)
            /\ UNCHANGED <<rcv_str, expect>>
    /\ UNCHANGED <<exc, srv, conn, conn_closes, f_img, f_pos, image_size,
                   bytes_sent, block_start, data_len, packed_len,
                   chunk_size_in_blocks, exit_status, flashed_ok, fail_pc, tx,
                   rx, hs_cr>>
    /\ UNCHANGED <<fileVars, devVars, inputVars>>
    /\ UNCHANGED dev_report

\* --------------------------------------------------------------- the board
\* The commands whose output carries a number.
NumberedOps == {"tftp", "lzmadec", "mmc_write"}

RECURSIVE Pow10(_)
Pow10(k) == IF k = 0 THEN 1 ELSE 10 * Pow10(k - 1)

\* The number a finished command has to report: the length of the file
\* fetched, the uncompressed length of what was fetched, the block count of
\* the command.
DevNumber(cmd) ==
    CASE cmd.op = "tftp" -> chunk_content[1]
      [] cmd.op = "lzmadec" -> dev_ram[2]
      [] cmd.op = "mmc_write" -> FromHex(cmd.b)
      [] OTHER -> 0

\* The numbers the board can print for it: the right one, or another one
\* (another file served, truncated data, a short write): one with a further
\* digit after it, one with a further digit before it.
Reports(cmd) ==
    LET n == DevNumber(cmd) IN
        {n, 10 * n + 7, n + Pow10(Len(ToDecimal(n)))}

\* What u-boot prints for a finished command, before the next prompt.
DevOutput(cmd, n) ==
    CASE cmd.op = "tftp" ->
            IF chunk_file = "closed"
            THEN BytesTransferredPrefix \o ToDecimal(n)
            ELSE <<>>
      [] cmd.op = "lzmadec" -> UncompressedPrefix \o ToDecimal(n)
      [] cmd.op = "mmc_write" -> ToDecimal(n) \o BlocksWrittenSuffix
      [] OTHER -> <<>>

\* The autoboot countdown runs out before any key arrives: the board boots
\* its operating system and prints no marker any more.
DevAutoboot ==
    /\ dev = "countdown"
    /\ tx = <<>>
    /\ dev' = "booted"
    /\ UNCHANGED <<progVars, srv, tx, rx, rcv_str, expect, dev_cmd, dev_ram>>
    /\ UNCHANGED <<fileVars, histVars, inputVars>>
    /\ UNCHANGED trace
    /\ UNCHANGED dev_report

\* A key arrives during the countdown: autoboot stops, the prompt appears.
DevInterrupt ==
    /\ dev = "countdown"
    /\ tx # <<>>
    /\ tx' = Tail(tx)
    /\ rx' = rx \o uboot_prompt
    /\ dev' = "prompt"
    /\ UNCHANGED <<progVars, srv, rcv_str, expect, dev_cmd, dev_ram>>
    /\ UNCHANGED <<fileVars, histVars, inputVars>>
    /\ UNCHANGED trace
    /\ UNCHANGED dev_report

\* The board at the prompt takes the next command line.
DevStart ==
    /\ dev = "prompt"
    /\ tx # <<>>
    /\ dev_cmd' = Head(tx)
    /\ tx' = Tail(tx)
    /\ dev' = "busy"
    /\ UNCHANGED <<progVars, srv, rx, rcv_str, expect, dev_ram>>
    /\ UNCHANGED <<fileVars, histVars, inputVars>>
    /\ UNCHANGED trace
    /\ UNCHANGED dev_report

\* The command finishes: its output, then the prompt.  A tftp command has
\* fetched chunk.bin from the server into the staging address.
DevFinish ==
    /\ dev = "busy"
    /\ \E n \in IF dev_cmd.op \in NumberedOps THEN Reports(dev_cmd) ELSE {0} :
          /\ rx' = rx \o DevOutput(dev_cmd, n) \o uboot_prompt
          /\ dev_report' =
                IF dev_cmd.op \in NumberedOps
                       /\ (dev_cmd.op = "tftp" => chunk_file = "closed")
                THEN [dev_report EXCEPT ![dev_cmd.op] = n]
                ELSE dev_report
    /\ dev_ram' = IF dev_cmd.op = "tftp" /\ chunk_file = "closed"
                  THEN chunk_content ELSE dev_ram
    /\ dev_cmd' = NoCmd
    /\ dev' = "prompt"
    /\ UNCHANGED <<progVars, srv, tx, rcv_str, expect>>
    /\ UNCHANGED <<fileVars, histVars, inputVars>>
    /\ UNCHANGED trace

\* ------------------------------------------------------------ specification
Next ==
    \/ MainTftp
    \/ OpenConnection
    \/ HsSend1
    \/ HsSend2
    \/ OpenImage
    \/ SetServerip
    \/ SetIpaddr
    \/ MmcDev
    \/ ReadChunk
    \/ WriteChunk
    \/ SendTftp
    \/ SendLzmadec
    \/ SendMmcWrite
    \/ Advance
    \/ Finally
    \/ CloseAll
    \/ StopServer
    \/ ExceptHandler
    \/ ProcessExit
    \/ WaitRead
    \/ WaitTimeout
    \/ WaitReturn
    \/ DevAutoboot
    \/ DevInterrupt
    \/ DevStart
    \/ DevFinish

Spec == Init /\ [][Next]_vars

\* ------------------------------------ conn_wait_for_any() on its own
\* One call of conn_wait_for_any on an arbitrary byte stream: the expected
\* strings and the stream are drawn from small sets, the board is silent.
Alphabet == {"a", "b"}
WaitStrings == {<<>>, <<"a">>, <<"a", "b">>, <<"b", "b">>}
Streams == UNION {[1..k -> Alphabet] : k \in 0..MaxStream}

InitWait ==
    /\ args = [tftp |-> "DIR", serverip |-> FALSE, ipaddr |-> FALSE,
               xz |-> FALSE]
    /\ image_len = 0
    /\ pc = "wait"
    /\ exc = "none"
    /\ srv = "none"
    /\ conn = "open"
    /\ conn_closes = 0
    /\ f_img = "unopened"
    /\ f_pos = 0
    /\ image_size = 0
    /\ bytes_sent = 0
    /\ block_start = 0
    /\ data_len = 0
    /\ packed_len = 0
    /\ chunk_size_in_blocks = 0
    /\ chunk_file = "absent"
    /\ chunk_content = <<0, 0>>
    /\ tx = <<>>
    /\ rx \in Streams
    /\ rcv_str = <<>>
    /\ expect \in SUBSET WaitStrings
    /\ dev = "booted"
    /\ dev_cmd = NoCmd
    /\ dev_ram = <<0, 0>>
    /\ exit_status = -1
    /\ hs_cr = 0
    /\ hs_first = "none"
    /\ confirmed = {}
    /\ flashed_ok = FALSE
    /\ fail_pc = "none"
    /\ trace = <<>>
    /\ dev_report = NoReport

NextWait ==
    \/ WaitRead
    \/ WaitTimeout
    \/ WaitReturn

SpecWait == InitWait /\ [][NextWait]_vars

\* ================================================================== claims
MiB == 1024 * 1024

\* do_flash_image has returned or raised.
SessionEnded == pc \in {"stop_server", "except", "main_returned", "exited"}

\* The handshake is over: the second wait has returned.
HandshakeDone ==
    /\ pc \notin {"main", "open_connection", "hs_send1", "hs_wait1",
                  "hs_send2", "hs_wait2"}
    /\ fail_pc \notin {"main", "open_connection", "hs_wait1", "hs_wait2"}
    /\ exit_status # 1

\* The board is fetching chunk.bin from the file server.
Fetching == dev = "busy" /\ dev_cmd.op = "tftp"

\* C1: when the first wait of the handshake is satisfied by the prompt
\* marker, no second carriage return is sent: exactly one carriage return
\* is sent during the handshake.
C1_OneCarriageReturnAtPrompt ==
    hs_first = "prompt" => hs_cr = 1

\* C2: when the first wait is satisfied by the countdown marker, exactly one
\* further carriage return is sent, and the handshake completes only with a
\* prompt marker read after that second carriage return; the handshake
\* never sends more than two carriage returns.
C2_CountdownSecondCarriageReturn ==
    /\ hs_cr <= 2
    /\ (hs_first = "countdown" /\ pc # "hs_send2") => hs_cr = 2
    /\ (hs_first = "countdown" /\ HandshakeDone) => hs_cr = 2
    /\ pc = "open_image" => (hs_cr = 2 /\ Contains(uboot_prompt, rcv_str))

C2_Witness ==
    /\ hs_first = "countdown"
    /\ pc = "open_image"
    /\ hs_cr = 2

\* C3: bytes_sent and block_start change only together and only after the
\* transfer, decompression and write confirmations and the prompt after the
\* write have been received for the chunk in hand; after a timeout in a wait
\* of a chunk both hold what they held after the last completed chunk.
C3_StepAllOrNothing ==
    (bytes_sent' # bytes_sent \/ block_start' # block_start) =>
        /\ bytes_sent' = bytes_sent + data_len
        /\ block_start' = block_start + BlocksOf(data_len)
        /\ bytes_sent' # bytes_sent
        /\ block_start' # block_start
        /\ {"w_transfer", "w_uncompressed", "w_written", "w_write_prompt"}
              \subseteq confirmed
        /\ exc = "none"

C3_AfterTimeout ==
    fail_pc \in TryPcs =>
        /\ bytes_sent = f_pos - data_len
        /\ block_start * mmc_block_size = base_addr + bytes_sent

C3_BookkeepingAllOrNothing ==
    [][C3_StepAllOrNothing]_vars /\ []C3_AfterTimeout

C3_Witness ==
    /\ fail_pc = "w_written"
    /\ pc = "exited"
    /\ bytes_sent = chunk_size_in_bytes

\* C4: on a successful run bytes_sent equals the image length n and
\* block_start equals its initial value plus ceil(n / 512); a 45 MiB image
\* goes out as chunks of 20, 20 and 5 MiB, that is 40960, 40960 and 10240
\* blocks.
C4_TotalsOnSuccess ==
    /\ flashed_ok =>
          /\ bytes_sent = image_len
          /\ block_start =
                base_addr \div mmc_block_size
                    + (image_len + mmc_block_size - 1) \div mmc_block_size
    /\ (image_len = 45 * MiB /\ pc = "advance") =>
          /\ bytes_sent \in {0, 20 * MiB} =>
                (data_len = 20 * MiB /\ chunk_size_in_blocks = 40960)
          /\ bytes_sent = 40 * MiB =>
                (data_len = 5 * MiB /\ chunk_size_in_blocks = 10240)
          /\ bytes_sent \in {0, 20 * MiB, 40 * MiB}
    /\ (image_len = 45 * MiB /\ flashed_ok) => bytes_sent = 47185920

C4_Witness ==
    /\ flashed_ok
    /\ image_len = 45 * MiB
    /\ bytes_sent = 47185920
    /\ block_start = 92160

\* C5: once the session has ended, in success or after a timeout in a wait
\* of a chunk, there is no chunk file in the transfer root.
C5_NoChunkFileAfterSession ==
    (SessionEnded /\ (flashed_ok \/ fail_pc \in TryPcs)) => chunk_file = "absent"

C5_Witness ==
    /\ pc = "exited"
    /\ fail_pc = "w_written"
    /\ chunk_file = "absent"

\* C6: the serial channel, once opened, has been closed exactly once when
\* the session is over, on every exit path.
C6_ChannelClosedOnEveryExit ==
    (pc \in {"main_returned", "exited"} /\ conn # "unopened") =>
        (conn = "closed" /\ conn_closes = 1)

\* C7: in auto-spawn mode the server is started before the handshake sends
\* its first byte, and it has been stopped once main() is over, whatever
\* the outcome of the session.
C7_ServerStartedAndStopped ==
    /\ (args.tftp = "AUTO" /\ hs_cr >= 1) => srv # "none"
    /\ (args.tftp = "AUTO" /\ pc = "main_returned") => srv = "stopped"

\* C8 (as stated): the chunk file is closed before its transfer command is
\* sent, and the orchestrator overwrites or removes it only after the
\* transfer-confirmation marker of its fetch was received, never while the
\* board is fetching it.
C8_TransferNeedsClosedFile ==
    (Len(tx') > Len(tx) /\ tx'[Len(tx')].op = "tftp") => chunk_file = "closed"

C8_OverwriteAfterConfirmation ==
    (chunk_file = "closed" /\ chunk_file' = "writing") =>
        ("w_transfer" \in confirmed /\ ~Fetching)

C8_RemoveAfterConfirmation ==
    (chunk_file = "closed" /\ chunk_file' = "absent") =>
        ("w_transfer" \in confirmed /\ ~Fetching)

C8_Original ==
    [][/\ C8_TransferNeedsClosedFile
       /\ C8_OverwriteAfterConfirmation
       /\ C8_RemoveAfterConfirmation]_vars

\* C8 (amended): as above, except that the cleanup after a timeout of the
\* transfer-confirmation wait removes the file without that confirmation,
\* possibly while the board is still fetching it.
C8_RemoveAfterConfirmationOrTimeout ==
    (chunk_file = "closed" /\ chunk_file' = "absent") =>
        \/ ("w_transfer" \in confirmed /\ ~Fetching)
        \/ (fail_pc = "w_transfer" /\ exc = "TimeoutError")

C8_Amended ==
    [][/\ C8_TransferNeedsClosedFile
       /\ C8_OverwriteAfterConfirmation
       /\ C8_RemoveAfterConfirmationOrTimeout]_vars

C8_Witness ==
    /\ fail_pc = "w_transfer"
    /\ chunk_file = "absent"
    /\ Fetching
    /\ bytes_sent = chunk_size_in_bytes

\* C9: the process exits with status zero exactly when the image was fully
\* flashed and the success message logged, and with a non-zero status after
\* any failure.
C9_ExitStatus ==
    pc = "exited" => (exit_status = 0 <=> flashed_ok)

\* C10: conn_wait_for_any returns exactly when an expected string first
\* occurs in the bytes read by this call, having read no byte beyond the one
\* that completes the match and having lost or reordered none; it raises
\* TimeoutError when a read yields nothing before any expected string
\* occurred.
Front(s) == SubSeq(s, 1, Len(s) - 1)

C10_Returned ==
    pc = "wait_returned" =>
        /\ AnyMatch(expect, rcv_str)
        /\ rcv_str # <<>> => ~AnyMatch(expect, Front(rcv_str))
        /\ exc = "none"

C10_TimedOut ==
    pc = "except" =>
        /\ exc = "TimeoutError"
        /\ ~AnyMatch(expect, rcv_str)
        /\ rx = <<>>

C10_Step ==
    /\ rcv_str' \o rx' = rcv_str \o rx
    /\ (pc = "wait" /\ AnyMatch(expect, rcv_str)) =>
          (pc' = "wait_returned" /\ rcv_str' = rcv_str)
    /\ (pc = "wait" /\ ~AnyMatch(expect, rcv_str) /\ rx = <<>>) =>
          pc' = "except"

C10_WaitForAny ==
    [](C10_Returned /\ C10_TimedOut) /\ [][C10_Step]_vars

C10_Witness ==
    /\ pc = "wait_returned"
    /\ Len(rcv_str) = 3
    /\ rx # <<>>
    /\ Cardinality(expect) = 2
    /\ <<>> \notin expect

\* The commands sent so far, in order (the trace without the returned waits).
Sent == SelectSeq(trace, LAMBDA c : c.op # "returned")

ChunkOps == {"tftp", "lzmadec", "mmc_write"}

\* C11: once a wait has raised TimeoutError no further command is sent, no
\* wait is entered again, and no further chunk is read from the image or
\* written to the chunk file.
C11_StepAfterTimeout ==
    fail_pc \in WaitPcs =>
        /\ trace' = trace
        /\ tx' = tx \/ tx' = Tail(tx)
        /\ f_pos' = f_pos
        /\ data_len' = data_len
        /\ chunk_file' \in {chunk_file, "absent"}
        /\ pc' \notin WaitPcs
        /\ exc' = "TimeoutError"

C11_TimeoutIsFatal == [][C11_StepAfterTimeout]_vars

C11_Witness ==
    /\ fail_pc = "w_uncompressed"
    /\ pc = "exited"
    /\ bytes_sent = chunk_size_in_bytes
    /\ f_pos < image_len

\* The block write at position i of Sent was preceded, since the transfer
\* command of its chunk, by a decompression command.
LzmadecBefore(i) ==
    \E j \in 1..(i - 1) :
        /\ Sent[j].op = "lzmadec"
        /\ \A k \in j..i : Sent[k].op # "tftp"

\* What the claim says of a run whose compression setting is `enabled`: the
\* chunk file holds the compressed chunk if it is set and the raw chunk if
\* not, and a chunk gets a decompression command exactly if it is set.
C12_Follows(enabled) ==
    /\ chunk_file = "closed" =>
          IF enabled
          THEN /\ chunk_content[1] \in PackedLens(chunk_content[2])
               /\ chunk_content[1] # chunk_content[2]
          ELSE chunk_content[1] = chunk_content[2]
    /\ \A i \in 1..Len(Sent) :
          Sent[i].op = "mmc_write" => (LzmadecBefore(i) <=> enabled)
    /\ ~enabled => \A i \in 1..Len(Sent) : Sent[i].op # "lzmadec"

Label(c) == IF c.op = "returned" THEN c.a[1] ELSE c.op

\* The trace ends with the entries named by labels, in that order.
EndsWith(labels) ==
    /\ Len(trace) >= Len(labels)
    /\ \A i \in 1..Len(labels) :
          Label(trace[Len(trace) - Len(labels) + i]) = labels[i]

\* This step sends the command op.
Sends(op) ==
    /\ Len(trace') = Len(trace) + 1
    /\ trace'[Len(trace')].op = op

\* The previous chunk, if any, is through: the last thing that happened on
\* the line is the prompt after its write confirmation (or, for the first
\* chunk, the prompt after the mmc dev command).
PreviousChunkDone ==
    \/ EndsWith(<<"mmc_dev", "w_mmc_dev">>)
    \/ EndsWith(<<"mmc_write", "w_written", "w_write_prompt">>)

\* This step reads the next chunk from the image or writes the chunk file.
Stages ==
    \/ f_pos' # f_pos
    \/ chunk_file' = "writing" /\ chunk_file # "writing"
    \/ chunk_file' # "absent" /\ chunk_content' # chunk_content

C13_Step ==
    /\ Sends("tftp") => PreviousChunkDone /\ chunk_file = "closed"
    /\ Sends("lzmadec") =>
          EndsWith(<<"tftp", "w_transfer", "w_transfer_prompt">>)
    /\ Sends("mmc_write") =>
          EndsWith(<<"lzmadec", "w_uncompressed", "w_lzmadec_prompt">>)
    /\ Stages => PreviousChunkDone
    /\ \A op \in ChunkOps :
          Sends(op) /\ (\E i \in 1..Len(Sent) : Sent[i].op \in ChunkOps) =>
              tx = <<>> /\ dev = "prompt"

\* C13: the commands of a chunk go out in the order transfer, decompress,
\* block write, each only after the marker wait and the prompt wait of the
\* command before it have returned and the board has finished that command;
\* the next chunk is
\* read and staged only after the prompt wait that follows the write
\* confirmation of the chunk before it has returned.
C13_NeverPipelined == [][C13_Step]_vars

C13_Witness ==
    /\ pc = "send_tftp"
    /\ Len(SelectSeq(Sent, LAMBDA c : c.op = "mmc_write")) = 2
    /\ EndsWith(<<"mmc_write", "w_written", "w_write_prompt">>)

\* C14: a confirmation wait of the current chunk has returned only if the
\* board reported exactly the expected number: transferred bytes equal to the
\* length of the chunk file, uncompressed size equal to the length of the
\* chunk, blocks written equal to the block count of the command; so the
\* bookkeeping advances only after three exact reports.
C14_ExactReports ==
    /\ "w_transfer" \in confirmed => dev_report.tftp = packed_len
    /\ "w_uncompressed" \in confirmed => dev_report.lzmadec = data_len
    /\ "w_written" \in confirmed => dev_report.mmc_write = chunk_size_in_blocks
    /\ pc = "advance" =>
          /\ dev_report.tftp = packed_len
          /\ dev_report.lzmadec = data_len
          /\ dev_report.mmc_write = chunk_size_in_blocks

\* C15: with an empty image no transfer, decompression or write command is
\* sent, bytes_sent and block_start keep their initial values, the cleanup
\* raises no error although no chunk file exists, and a session that got as
\* far as the first read ends successfully.
C15_EmptyImage ==
    image_len = 0 =>
        /\ \A i \in 1..Len(Sent) : Sent[i].op \notin ChunkOps
        /\ f_img # "unopened" =>
              /\ bytes_sent = 0
              /\ block_start = base_addr \div mmc_block_size
        /\ exc # "FileNotFoundError"
        /\ SessionEnded /\ EndsWith(<<"mmc_dev", "w_mmc_dev">>) => flashed_ok

\* The block write commands sent so far, in order.
WriteCmds == SelectSeq(trace, LAMBDA c : c.op = "mmc_write")

\* First block and block count of a write command, as the board parses them.
FirstBlock(c) == FromHex(c.a)
BlockCount(c) == FromHex(c.b)

\* Each write command starts at the device byte offset equal to the image
\* offset of its chunk, and where the write command before it ended.
C16_Ranges ==
    \A i \in 1..Len(WriteCmds) :
        /\ FirstBlock(WriteCmds[i]) * mmc_block_size
              = base_addr + (i - 1) * chunk_size_in_bytes
        /\ BlockCount(WriteCmds[i]) > 0
        /\ i > 1 =>
              /\ FirstBlock(WriteCmds[i])
                    = FirstBlock(WriteCmds[i - 1]) + BlockCount(WriteCmds[i - 1])
              /\ FirstBlock(WriteCmds[i]) > FirstBlock(WriteCmds[i - 1])

\* The step that sends a write command sends block_start, and block_start is
\* then at the image offset of the chunk.
C16_Step ==
    Sends("mmc_write") =>
        /\ block_start * mmc_block_size = base_addr + bytes_sent
        /\ bytes_sent + data_len = f_pos
        /\ FirstBlock(trace'[Len(trace')]) = block_start

\* C16: whenever a block write command is sent block_start * 512 equals the
\* base address plus bytes_sent, so each chunk is written at the device
\* offset equal to its offset in the image; successive write ranges are
\* contiguous, do not overlap, and their first block strictly increases.
C16_LayoutPreserved == []C16_Ranges /\ [][C16_Step]_vars

C16_Witness ==
    /\ Len(WriteCmds) = 3
    /\ FirstBlock(WriteCmds[3]) = 2 * (chunk_size_in_bytes \div mmc_block_size)
    /\ BlockCount(WriteCmds[3]) = 2

\* The board has completed everything sent so far and every prompt it
\* emitted has been read.
BoardCaughtUp ==
    /\ tx = <<>>
    /\ dev = "prompt"
    /\ ~Contains(uboot_prompt, rx)

\* This step is a wait for the prompt alone returning.
PromptWaitReturns ==
    /\ pc \in WaitPcs
    /\ expect = {uboot_prompt}
    /\ Sends("returned")

\* This step sends a command line (not the bare carriage return of the
\* handshake).
SendsCommand ==
    /\ Len(trace') = Len(trace) + 1
    /\ trace'[Len(trace')].op \notin {"cr", "returned"}

C17_Step ==
    /\ PromptWaitReturns => BoardCaughtUp
    /\ SendsCommand => BoardCaughtUp

\* C17: with a board that emits one prompt per command line and one prompt
\* for the key that stops the countdown, a wait for the prompt returns only
\* on the prompt that follows the most recently sent command (the board has
\* then completed all input and no other prompt is unread), and a command is
\* sent only when the board is idle and no prompt is unread.
C17_ConsoleSynchronised == [][C17_Step]_vars

\* The same, for the sessions whose first wait was satisfied by the prompt.
C17_SynchronisedAfterPromptFirst == [][hs_first = "prompt" => C17_Step]_vars

\* How many times the command op has been sent.
Count(op) == Cardinality({i \in 1..Len(trace) : trace[i].op = op})

\* The setup commands, each with the prompt wait that follows it.
SetupOps == {"env_set_serverip", "env_set_ipaddr", "mmc_dev"}
SetupWait(op) ==
    CASE op = "env_set_serverip" -> "w_serverip"
      [] op = "env_set_ipaddr" -> "w_ipaddr"
      [] op = "mmc_dev" -> "w_mmc_dev"

\* How many times an optional setup command goes out in a session that gets
\* that far.
Supplied(flag) == IF flag THEN 1 ELSE 0

\* C18: the mmc dev command is sent at most once, only after the handshake
\* completed, and exactly once before the first transfer command; setenv
\* serverip and setenv ipaddr are sent only if their address was supplied, at
\* most once, and before mmc dev; whatever follows a setup command on the
\* line follows the return of its prompt wait.
C18_SetupOrdering ==
    /\ Count("mmc_dev") <= 1
    /\ Count("env_set_serverip") <= Supplied(args.serverip)
    /\ Count("env_set_ipaddr") <= Supplied(args.ipaddr)
    /\ \A i \in 1..Len(trace) :
          /\ trace[i].op = "tftp" =>
                \E j \in 1..(i - 1) : trace[j].op = "mmc_dev"
          /\ trace[i].op = "mmc_dev" =>
                /\ \E j \in 1..(i - 1) : Label(trace[j]) = "hs_wait2"
                /\ \A j \in 1..(i - 1) : trace[j].op \notin ChunkOps
                /\ Count("env_set_serverip") = Supplied(args.serverip)
                /\ Count("env_set_ipaddr") = Supplied(args.ipaddr)
                /\ \A j \in (i + 1)..Len(trace) : trace[j].op \notin SetupOps
          /\ trace[i].op \in SetupOps /\ i < Len(trace) =>
                Label(trace[i + 1]) = SetupWait(trace[i].op)

C18_Witness ==
    /\ args.serverip
    /\ ~args.ipaddr
    /\ Count("env_set_serverip") = 1
    /\ Count("mmc_dev") = 1
    /\ Count("tftp") = 2

\* The transfer root is neither the AUTO sentinel nor an existing directory.
BadTransferRoot == args.tftp \in {"NONE", "BAD"}

\* With a bad transfer root the serial channel is never opened, nothing is
\* sent and no file server is started.
C19_NothingStarted ==
    BadTransferRoot =>
        /\ conn = "unopened"
        /\ trace = <<>>
        /\ tx = <<>>
        /\ srv = "none"
        /\ pc \in {"main", "except", "main_returned", "exited"}

\* C19: when the -t argument is neither AUTO nor an existing directory, or is
\* absent, the run fails in main() with the configuration error ("-t
\* parameter is not external TFTP root."), before the serial channel is
\* opened, before anything is sent and without a file server.
C19_ConfigurationError ==
    /\ C19_NothingStarted
    /\ BadTransferRoot /\ pc # "main" =>
          /\ exc = "Exception"
          /\ fail_pc = "main"

====
